---- MODULE Spec2Model ----
(***************************************************************************)
(* Model of Poedit's EditingArea (src/src/editing_area.cpp): the           *)
(* synchronisation of a catalog item with the translation text controls    *)
(* (UpdateToTextCtrl = push, UpdateFromTextCtrl = pull).                   *)
(*                                                                         *)
(* Texts are sequences of characters; the character "\n" is the newline.   *)
(***************************************************************************)
EXTENDS Integers, Sequences, FiniteSets, TLC

\* ------------------------------------------------------------------ bounds
\* largest number of plural forms of the catalog (size of m_textTransPlural)
MaxForms == 2
\* longest text handed to PreprocessEnteredTextForItem in SpecPreprocess
MaxLen == 3
\* number of first cardinals an evaluator of SpecDescriber tells apart
MaxHead == 4
\* most pages of the plural notebook in SpecFocus
MaxTabs == 10

\* ------------------------------------------------------------------- texts
NL == "\n"
Chars == {"a", NL}
wxEmptyString == << >>

\* texts the user types into a translation control
EnteredTexts == {wxEmptyString, <<"a">>, <<NL>>}
\* translations found in the catalog when it is loaded
StoredTexts == {wxEmptyString, <<"a">>, <<"a", NL>>}
\* source strings (msgid) of the catalog item
Sources == {<<"a">>, <<"a", NL>>}

Last(t) == t[Len(t)]
RemoveLast(t) == SubSeq(t, 1, Len(t) - 1)

\* PreprocessEnteredTextForItem with the first branch only
PreprocessAppendOnly(orig, t) ==
    IF t # wxEmptyString /\ orig # wxEmptyString
       /\ Last(orig) = NL /\ Last(t) # NL
    THEN Append(t, NL)
    ELSE t

\* does some basic processing of user input, e.g. to remove trailing \n
PreprocessEnteredTextForItem(orig, t) ==
    IF t # wxEmptyString /\ orig # wxEmptyString
    THEN IF Last(orig) = NL /\ Last(t) # NL
         THEN Append(t, NL)
         ELSE IF Last(orig) # NL /\ Last(t) = NL
              THEN RemoveLast(t)
              ELSE t
    ELSE t

\* -------------------------------------------------------------- catalog item
\* CatalogItem::GetTranslation(idx): the empty string when idx is not stored
GetTranslation(item, idx) ==
    IF idx < Len(item.translations) THEN item.translations[idx + 1]
    ELSE wxEmptyString

\* CatalogItem::SetTranslation(t, 0)
SetTranslation(item, t) ==
    [item EXCEPT !.translations =
        IF Len(@) = 0 THEN <<t>> ELSE [@ EXCEPT ![1] = t]]

AllNonEmpty(ts) == \A i \in 1..Len(ts) : ts[i] # wxEmptyString

SeqsUpTo(S, n) == UNION {[1..k -> S] : k \in 0..n}

\* the items a loaded catalog can hold: a plural item stores any number of
\* translations up to the bound, a non-plural item exactly one; the catalog
\* keeps isTranslated in step with the stored translations, and a freshly
\* loaded item is not modified
CatalogItems ==
    { [source |-> src, hasPlural |-> pl, translations |-> ts,
       isFuzzy |-> fz, isTranslated |-> (Len(ts) > 0 /\ AllNonEmpty(ts)),
       isModified |-> FALSE, isPreTranslated |-> pt] :
        src \in Sources, pl \in BOOLEAN, ts \in SeqsUpTo(StoredTexts, MaxForms),
        fz \in BOOLEAN, pt \in BOOLEAN }

ItemWellFormed(it) == it.hasPlural \/ Len(it.translations) = 1

\* ------------------------------------------------------------------- state
VARIABLES
    item,                       \* the catalog item of the list
    selected,                   \* m_associatedList->GetCurrentCatalogItem() # null
    m_textTrans,                \* text of the single translation control
    m_textTransPlural,          \* texts of the plural translation controls
    evtHandlerEnabled,          \* per control: is its event handler enabled
    pluralShown,                \* ShowPluralFormUI state
    toolbarFuzzy,               \* m_associatedToolbar->IsFuzzy()
    m_dontAutoclearFuzzyStatus,
    lastOp,                     \* what ran last: "push", "pull", "edit", else "idle"
    prevOp,                     \* for a called pull: the operation before it
    pre,                        \* flags as they were before the last operation
    pulls,                      \* UpdateFromTextCtrl runs in the last operation
    updated,                    \* OnUpdatedFromTextCtrl calls (statisticsChanged)
    refreshed,                  \* RefreshSelectedItems calls in the last operation
    calcUsed,                   \* the evaluator of the last RecreatePluralTextCtrls
    formExamples,               \* per form: examplesCnt, firstExample, examples
    pageLabels,                 \* the titles of the notebook pages, in form order
    m_textTransSingularForm,    \* form index of the singular control, -1 if NULL
    notebookSelection,          \* m_pluralNotebook->GetSelection(), -1 if none
    focused                     \* the plural control with the focus, -1 if none

vars == <<item, selected, m_textTrans, m_textTransPlural, evtHandlerEnabled,
          pluralShown, toolbarFuzzy, m_dontAutoclearFuzzyStatus,
          lastOp, prevOp, pre, pulls, updated, refreshed,
          calcUsed, formExamples, pageLabels, m_textTransSingularForm,
          notebookSelection, focused>>

notebookVars == <<calcUsed, formExamples, pageLabels, m_textTransSingularForm,
                  notebookSelection, focused>>

\* The handlers are computed on a record of the whole state ("world"), so
\* that a text event raised in the middle of a handler can run another one.
World ==
    [item |-> item, selected |-> selected, textTrans |-> m_textTrans,
     textTransPlural |-> m_textTransPlural, enabled |-> evtHandlerEnabled,
     pluralShown |-> pluralShown, toolbarFuzzy |-> toolbarFuzzy,
     dontAutoclear |-> m_dontAutoclearFuzzyStatus,
     pulls |-> 0, updated |-> << >>, refreshed |-> 0]

\* controls: 0 is m_textTrans, j >= 1 is m_textTransPlural[j-1]
CtrlText(w, c) == IF c = 0 THEN w.textTrans ELSE w.textTransPlural[c]

\* ------------------------------------------------ UpdateFromTextCtrl (pull)
\* std::min
Min(a, b) == IF a < b THEN a ELSE b

\* the texts of as many plural controls as the item has translations
EnteredPluralTextsAsStored(w) ==
    [i \in 1..Min(Len(w.textTransPlural), Len(w.item.translations)) |->
        PreprocessEnteredTextForItem(w.item.source, w.textTransPlural[i])]

\* the normalized texts of the plural controls, in form order
EnteredPluralTexts(w) ==
    [i \in 1..Len(w.textTransPlural) |->
        PreprocessEnteredTextForItem(w.item.source, w.textTransPlural[i])]

\* allTranslated, with one non-empty text being enough
AllTranslatedAny(vals) == \E i \in 1..Len(vals) : vals[i] # wxEmptyString

\* allTranslated: starts true, cleared by every empty normalized text
AllTranslated(vals) == \A i \in 1..Len(vals) : vals[i] # wxEmptyString

\* the pull without its early return
NothingChangedNever(isFuzzy, newfuzzy, anyTransChanged) == FALSE

\* the early return taken whenever no translation changed
NothingChangedTextOnly(isFuzzy, newfuzzy, anyTransChanged) == ~anyTransChanged

\* "not even fuzzy status changed, so return"
NothingChanged(isFuzzy, newfuzzy, anyTransChanged) ==
    isFuzzy = newfuzzy /\ ~anyTransChanged

\* the auto-clearing of the fuzzy status, ignoring m_dontAutoclearFuzzyStatus
AutoclearFuzzyAlways(newfuzzy, isFuzzy, dontAutoclear) ==
    IF newfuzzy = isFuzzy THEN FALSE ELSE newfuzzy

\* the auto-clearing that ignores whether the user toggled the toolbar
AutoclearFuzzyUntoggled(newfuzzy, isFuzzy, dontAutoclear) ==
    IF ~dontAutoclear THEN FALSE ELSE newfuzzy

\* editing a fuzzy item unfuzzies it, unless told not to
AutoclearFuzzy(newfuzzy, isFuzzy, dontAutoclear) ==
    IF newfuzzy = isFuzzy /\ ~dontAutoclear THEN FALSE ELSE newfuzzy

\* the toolbar left as the user set it
ToolbarFuzzyKept(old, newfuzzy) == old

\* m_associatedToolbar->SetFuzzy(newfuzzy)
ToolbarSetFuzzy(old, newfuzzy) == newfuzzy

\* statisticsChanged, set whenever the pull gets past the early return
StatisticsChangedAlways(isFuzzy, newfuzzy, oldIsTranslated, allTranslated) == TRUE

\* "did something affecting statistics change?"
StatisticsChanged(isFuzzy, newfuzzy, oldIsTranslated, allTranslated) ==
    (isFuzzy # newfuzzy) \/ (oldIsTranslated # allTranslated)

UpdateFromTextCtrl(w) ==
    LET w1 == [w EXCEPT !.pulls = @ + 1] IN
    IF ~w.selected THEN w1
    ELSE
    LET it == w.item
        oldIsTranslated == it.isTranslated
        vals == IF it.hasPlural
                THEN EnteredPluralTexts(w)
                ELSE <<PreprocessEnteredTextForItem(it.source, w.textTrans)>>
        allTranslated == AllTranslated(vals)
        anyTransChanged == IF it.hasPlural
                           THEN vals # it.translations
                           ELSE vals[1] # GetTranslation(it, 0)
        it1 == IF ~anyTransChanged THEN it
               ELSE IF it.hasPlural THEN [it EXCEPT !.translations = vals]
               ELSE SetTranslation(it, vals[1])
    IN
    IF NothingChanged(it1.isFuzzy, w.toolbarFuzzy, anyTransChanged)
    THEN [w1 EXCEPT !.item = it1]
    ELSE
    LET newfuzzy == AutoclearFuzzy(w.toolbarFuzzy, it1.isFuzzy, w.dontAutoclear)
        statisticsChanged ==
            StatisticsChanged(it1.isFuzzy, newfuzzy, oldIsTranslated, allTranslated)
        it2 == [it1 EXCEPT
                  !.isFuzzy = IF @ # newfuzzy THEN newfuzzy ELSE @,
                  !.isTranslated = IF oldIsTranslated # allTranslated
                                   THEN allTranslated ELSE @,
                  !.isModified = TRUE,
                  !.isPreTranslated = FALSE]
    IN [w1 EXCEPT !.item = it2,
                  !.toolbarFuzzy = ToolbarSetFuzzy(@, newfuzzy),
                  !.refreshed = @ + 1,
                  !.updated = Append(@, statisticsChanged)]

\* -------------------------------------------------- UpdateToTextCtrl (push)
\* the wxEVT_TEXT handler bound to every translation control; a disabled
\* event handler does not get the event
OnTextEvent(w, c) == IF w.enabled[c] THEN UpdateFromTextCtrl(w) ELSE w

SetCtrlText(w, c, value) ==
    IF c = 0 THEN [w EXCEPT !.textTrans = value]
    ELSE [w EXCEPT !.textTransPlural[c] = value]

\* TranslationTextCtrl::SetPlainText and SetPlainTextUserWritten: the control
\* holds the text and raises wxEVT_TEXT
SetPlainText(w, c, value) == OnTextEvent(SetCtrlText(w, c, value), c)
SetPlainTextUserWritten(w, c, value) == OnTextEvent(SetCtrlText(w, c, value), c)

\* SetTranslationValue without the EventHandlerDisabler
SetTranslationValueNoDisabler(w, c, value, undoable) ==
    IF undoable THEN SetPlainTextUserWritten(w, c, value)
    ELSE SetPlainText(w, c, value)

SetTranslationValue(w, c, value, undoable) ==
    LET disabled == [w EXCEPT !.enabled[c] = FALSE]
        written == IF undoable THEN SetPlainTextUserWritten(disabled, c, value)
                   ELSE SetPlainText(disabled, c, value)
    IN [written EXCEPT !.enabled[c] = TRUE]


\* for (j = 0; j < formsCnt; j++) SetTranslationValue(.., wxEmptyString, ..)
RECURSIVE ClearPluralCtrls(_, _, _)
ClearPluralCtrls(w, j, undoable) ==
    IF j < Len(w.textTransPlural)
    THEN ClearPluralCtrls(SetTranslationValue(w, j + 1, wxEmptyString, undoable),
                          j + 1, undoable)
    ELSE w

\* for (i = 0; i < min(formsCnt, GetNumberOfTranslations()); i++)
RECURSIVE FillPluralCtrls(_, _, _)
FillPluralCtrls(w, i, undoable) ==
    IF i < Min(Len(w.textTransPlural), Len(w.item.translations))
    THEN FillPluralCtrls(
            SetTranslationValue(w, i + 1, GetTranslation(w.item, i), undoable),
            i + 1, undoable)
    ELSE w

\* the plural branch without its first loop, and without its second
WritePluralCtrlsNoClear(w, undoable) == FillPluralCtrls(w, 0, undoable)
WritePluralCtrlsClearOnly(w, undoable) == ClearPluralCtrls(w, 0, undoable)

WritePluralCtrls(w, undoable) ==
    FillPluralCtrls(ClearPluralCtrls(w, 0, undoable), 0, undoable)

\* the push that leaves m_dontAutoclearFuzzyStatus as it finds it
UpdateToTextCtrlKeepsDontAutoclear(w, undoable) ==
    LET written == IF w.item.hasPlural
                   THEN WritePluralCtrls(w, undoable)
                   ELSE SetTranslationValue(w, 0, GetTranslation(w.item, 0), undoable)
    IN [written EXCEPT !.pluralShown = w.item.hasPlural]

\* EditingArea::UpdateToTextCtrl(item, flags)
UpdateToTextCtrl(w, undoable) ==
    LET written == IF w.item.hasPlural
                   THEN WritePluralCtrls(w, undoable)
                   ELSE SetTranslationValue(w, 0, GetTranslation(w.item, 0), undoable)
    IN [written EXCEPT !.pluralShown = w.item.hasPlural,
                       !.dontAutoclear = FALSE]

\* ------------------------------------- RecreatePluralTextCtrls (Describer)
\* static const int maxExamplesCnt = 5
maxExamplesCnt == 5
\* for (int example = 0; example < 1000; example++)
SampleLimit == 1000

\* no PluralFormsCalculator: the Plural-Forms header is missing or malformed
NoCalc == [head |-> << >>, tail |-> << >>]

\* PluralFormsCalculator::evaluate(n): the form of the cardinal n; the
\* evaluators modelled list the forms of the first cardinals and go round a
\* list of forms (of one form, or more) for all larger ones
Evaluate(calc, n) ==
    IF n < Len(calc.head) THEN calc.head[n + 1]
    ELSE calc.tail[((n - Len(calc.head)) % Len(calc.tail)) + 1]

\* the string "examples": the numbers printed so far, and the ellipsis
NoExamples == [nums |-> << >>, ellipsis |-> FALSE]

\* the next sample cardinal from example on that the evaluator maps to the
\* form (the iterations in between do nothing), SampleLimit if there is none
NextExample(calc, form, example) ==
    IF \E e \in example..(SampleLimit - 1) : Evaluate(calc, e) = form
    THEN CHOOSE e \in example..(SampleLimit - 1) :
            /\ Evaluate(calc, e) = form
            /\ \A skipped \in example..(e - 1) : Evaluate(calc, skipped) # form
    ELSE SampleLimit

\* the loop over the sample cardinals, taken up at e, the next cardinal of
\* the form: counts the examples, notes the first, prints them, and at
\* maxExamplesCnt prints the ellipsis instead and stops
RECURSIVE ScanExamples(_, _, _, _)
ScanExamples(calc, form, e, acc) ==
    IF e >= SampleLimit THEN acc
    ELSE LET cnt == acc.examplesCnt + 1
             first == IF cnt = 1 THEN e ELSE acc.firstExample
         IN IF cnt = maxExamplesCnt
            THEN [examplesCnt |-> cnt, firstExample |-> first,
                  examples |-> [acc.examples EXCEPT !.ellipsis = TRUE]]
            ELSE ScanExamples(calc, form, NextExample(calc, form, e + 1),
                    [examplesCnt |-> cnt, firstExample |-> first,
                     examples |-> [acc.examples EXCEPT !.nums = Append(@, e)]])

NoneFound == [examplesCnt |-> 0, firstExample |-> -1, examples |-> NoExamples]

\* "find example number that would use this plural form"
FindExamples(calc, formsCount, form) ==
    IF calc # NoCalc /\ formsCount > 1
    THEN ScanExamples(calc, form, NextExample(calc, form, 0), NoneFound)
    ELSE NoneFound

Label(kind, form, examples) ==
    [kind |-> kind, form |-> form, examples |-> examples]

\* the description with the "0, 1" rule dropped
DescribeFormNoZeroOne(formsCount, form, found) ==
    IF formsCount = 1 THEN Label("Everything", 0, NoExamples)
    ELSE IF found.examplesCnt = 0 THEN Label("Form", form, NoExamples)
    ELSE IF found.examplesCnt = 1
    THEN IF formsCount = 2 /\ found.firstExample = 1
         THEN Label("Singular", 0, NoExamples)
         ELSE IF found.firstExample = 0 THEN Label("Zero", 0, NoExamples)
         ELSE IF found.firstExample = 1 THEN Label("One", 0, NoExamples)
         ELSE IF found.firstExample = 2 THEN Label("Two", 0, NoExamples)
         ELSE Label("n =", 0, found.examples)
    ELSE IF formsCount = 2 /\ found.firstExample # 1
            /\ found.examplesCnt = maxExamplesCnt
    THEN IF found.firstExample = 0 \/ found.firstExample = 2
         THEN Label("Plural", 0, NoExamples)
         ELSE Label("Other", 0, NoExamples)
    ELSE Label("n ->", 0, found.examples)

\* the description that gives "Plural" and "Other" to forms of fewer than
\* maxExamplesCnt examples too
DescribeFormPluralUntruncated(formsCount, form, found) ==
    IF formsCount = 1 THEN Label("Everything", 0, NoExamples)
    ELSE IF found.examplesCnt = 0 THEN Label("Form", form, NoExamples)
    ELSE IF found.examplesCnt = 1
    THEN IF formsCount = 2 /\ found.firstExample = 1
         THEN Label("Singular", 0, NoExamples)
         ELSE IF found.firstExample = 0 THEN Label("Zero", 0, NoExamples)
         ELSE IF found.firstExample = 1 THEN Label("One", 0, NoExamples)
         ELSE IF found.firstExample = 2 THEN Label("Two", 0, NoExamples)
         ELSE Label("n =", 0, found.examples)
    ELSE IF formsCount = 2 /\ found.examplesCnt = 2 /\ found.firstExample = 0
            /\ found.examples = [nums |-> <<0, 1>>, ellipsis |-> FALSE]
    THEN Label("Singular", 0, NoExamples)
    ELSE IF formsCount = 2 /\ found.firstExample # 1
    THEN IF found.firstExample = 0 \/ found.firstExample = 2
         THEN Label("Plural", 0, NoExamples)
         ELSE Label("Other", 0, NoExamples)
    ELSE Label("n ->", 0, found.examples)

\* wxString desc: the title of the notebook page of the form
DescribeForm(formsCount, form, found) ==
    IF formsCount = 1 THEN Label("Everything", 0, NoExamples)
    ELSE IF found.examplesCnt = 0 THEN Label("Form", form, NoExamples)
    ELSE IF found.examplesCnt = 1
    THEN IF formsCount = 2 /\ found.firstExample = 1
         THEN Label("Singular", 0, NoExamples)
         ELSE IF found.firstExample = 0 THEN Label("Zero", 0, NoExamples)
         ELSE IF found.firstExample = 1 THEN Label("One", 0, NoExamples)
         ELSE IF found.firstExample = 2 THEN Label("Two", 0, NoExamples)
         ELSE Label("n =", 0, found.examples)
    ELSE IF formsCount = 2 /\ found.examplesCnt = 2 /\ found.firstExample = 0
            /\ found.examples = [nums |-> <<0, 1>>, ellipsis |-> FALSE]
    THEN Label("Singular", 0, NoExamples)
    ELSE IF formsCount = 2 /\ found.firstExample # 1
            /\ found.examplesCnt = maxExamplesCnt
    THEN IF found.firstExample = 0 \/ found.firstExample = 2
         THEN Label("Plural", 0, NoExamples)
         ELSE Label("Other", 0, NoExamples)
    ELSE Label("n ->", 0, found.examples)

\* the singular test on the first example alone
IsSingularFormFirstOnly(found) == found.firstExample = 1

\* "== singular"
IsSingularForm(found) == found.examplesCnt = 1 /\ found.firstExample = 1

\* the singular form taken to be the first form, whatever the loop marked
SingularFormAlwaysFirst(founds) == IF Len(founds) > 0 THEN 0 ELSE -1

\* m_textTransSingularForm as a form index (-1 is NULL): the last form
\* marked singular in the loop, else the first form if there is one
SingularFormOf(founds) ==
    LET marked == {f \in 1..Len(founds) : IsSingularForm(founds[f])}
    IN IF marked # {} THEN (CHOOSE f \in marked : \A g \in marked : g <= f) - 1
       ELSE IF Len(founds) > 0 THEN 0
       ELSE -1

\* ------------------------------------------------------------------ actions
NoPre == [isFuzzy |-> FALSE, isTranslated |-> FALSE, toolbarFuzzy |-> FALSE,
          dontAutoclear |-> FALSE]
PreOf == [isFuzzy |-> item.isFuzzy, isTranslated |-> item.isTranslated,
          toolbarFuzzy |-> toolbarFuzzy,
          dontAutoclear |-> m_dontAutoclearFuzzyStatus]
\* of the state before a push, only m_dontAutoclearFuzzyStatus is noted
PreOfPush == [NoPre EXCEPT !.dontAutoclear = m_dontAutoclearFuzzyStatus]

\* the controls and the item as a handler leaves them
BecomesSync(w, op, pv, pr) ==
    /\ item' = w.item
    /\ selected' = w.selected
    /\ m_textTrans' = w.textTrans
    /\ m_textTransPlural' = w.textTransPlural
    /\ evtHandlerEnabled' = w.enabled
    /\ pluralShown' = w.pluralShown
    /\ toolbarFuzzy' = w.toolbarFuzzy
    /\ m_dontAutoclearFuzzyStatus' = w.dontAutoclear
    /\ pulls' = w.pulls
    /\ updated' = w.updated
    /\ refreshed' = w.refreshed
    /\ lastOp' = op
    /\ prevOp' = pv
    /\ pre' = pr

\* the state a handler that leaves the notebook alone leaves behind
Becomes(w, op, pv, pr) ==
    /\ BecomesSync(w, op, pv, pr)
    /\ UNCHANGED notebookVars

\* what the loop over the forms finds, form by form
FoundForms(calc, formsCount) ==
    [f \in 1..formsCount |-> FindExamples(calc, formsCount, f - 1)]

\* the notebook after RecreatePluralTextCtrls: one page per form, titled by
\* its description; the first page added is the selected one
NotebookBuilt(calc, formsCount) ==
    \E founds \in {FoundForms(calc, formsCount)} :
    /\ calcUsed' = calc
    /\ formExamples' = founds
    /\ pageLabels' = [f \in 1..formsCount |->
                         DescribeForm(formsCount, f - 1, founds[f])]
    /\ m_textTransSingularForm' = SingularFormOf(founds)
    /\ notebookSelection' = IF formsCount > 0 THEN 0 ELSE -1
    /\ focused' = -1

\* RecreatePluralTextCtrls: formsCount fresh, empty controls with enabled
\* handlers, one notebook page each
RecreatePluralTextCtrls(calc, formsCount) ==
    /\ formsCount >= 1
    /\ BecomesSync([World EXCEPT
                      !.textTransPlural = [i \in 1..formsCount |-> wxEmptyString],
                      !.enabled = [c \in 0..formsCount |-> TRUE]],
                   "idle", "-", NoPre)
    /\ NotebookBuilt(calc, formsCount)

\* the notebook of a catalog of n forms without a Plural-Forms evaluator
NotebookWithoutCalc(n) ==
    /\ calcUsed = NoCalc
    /\ formExamples = FoundForms(NoCalc, n)
    /\ pageLabels = [f \in 1..n |-> DescribeForm(n, f - 1, NoneFound)]
    /\ m_textTransSingularForm = 0
    /\ notebookSelection = 0
    /\ focused = -1

\* the list selects the item, or nothing
SelectItem ==
    /\ ~selected
    /\ Becomes([World EXCEPT !.selected = TRUE], "idle", "-", NoPre)

DeselectItem ==
    /\ selected
    /\ Becomes([World EXCEPT !.selected = FALSE], "idle", "-", NoPre)

\* the frame shows the current item
CallUpdateToTextCtrl(undoable) ==
    /\ selected
    /\ Becomes(UpdateToTextCtrl(World, undoable), "push", "-", PreOfPush)

\* the frame asks for the controls to be read back
CallUpdateFromTextCtrl ==
    /\ lastOp \in {"idle", "push", "pull", "edit"}
    /\ Becomes(UpdateFromTextCtrl(World), "pull", lastOp, PreOf)

\* the user changes the text of a visible translation control; the control
\* raises wxEVT_TEXT
UserEditsText(c, t) ==
    /\ c \in 0..Len(m_textTransPlural)
    /\ (c = 0) = ~pluralShown
    /\ t # CtrlText(World, c)
    /\ Becomes(OnTextEvent(SetCtrlText(World, c, t), c), "edit", "-", PreOf)

\* the user clicks the fuzzy toggle of the toolbar
UserTogglesFuzzy ==
    /\ toolbarFuzzy \in BOOLEAN
    /\ Becomes([World EXCEPT !.toolbarFuzzy = ~@], "idle", "-", NoPre)

\* EditingArea::DontAutoclearFuzzyStatus()
DontAutoclearFuzzyStatus ==
    /\ ~m_dontAutoclearFuzzyStatus
    /\ Becomes([World EXCEPT !.dontAutoclear = TRUE], "idle", "-", NoPre)

Init ==
    /\ item \in {it \in CatalogItems : ItemWellFormed(it)}
    /\ selected = FALSE
    /\ m_textTrans = wxEmptyString
    /\ \E n \in 1..MaxForms :
          /\ m_textTransPlural = [i \in 1..n |-> wxEmptyString]
          /\ evtHandlerEnabled = [c \in 0..n |-> TRUE]
          /\ NotebookWithoutCalc(n)
    /\ pluralShown = FALSE
    /\ toolbarFuzzy = FALSE
    /\ m_dontAutoclearFuzzyStatus = FALSE
    /\ lastOp = "idle"
    /\ prevOp = "-"
    /\ pre = NoPre
    /\ pulls = 0
    /\ updated = << >>
    /\ refreshed = 0

Next ==
    \/ \E n \in 1..MaxForms : RecreatePluralTextCtrls(NoCalc, n)
    \/ SelectItem
    \/ DeselectItem
    \/ \E undoable \in BOOLEAN : CallUpdateToTextCtrl(undoable)
    \/ CallUpdateFromTextCtrl
    \/ \E c \in 0..MaxForms, t \in EnteredTexts : UserEditsText(c, t)
    \/ UserTogglesFuzzy
    \/ DontAutoclearFuzzyStatus

Spec == Init /\ [][Next]_vars

\* ------------------------------------- PreprocessEnteredTextForItem alone
TextsUpTo(n) == SeqsUpTo(Chars, n)

\* a non-plural item with any source text, shown and selected
InitPreprocess ==
    /\ \E src \in TextsUpTo(MaxLen) :
         item = [source |-> src, hasPlural |-> FALSE,
                 translations |-> <<wxEmptyString>>,
                 isFuzzy |-> FALSE, isTranslated |-> FALSE,
                 isModified |-> FALSE, isPreTranslated |-> FALSE]
    /\ selected = TRUE
    /\ m_textTrans = wxEmptyString
    /\ m_textTransPlural = <<wxEmptyString>>
    /\ evtHandlerEnabled = [c \in 0..1 |-> TRUE]
    /\ NotebookWithoutCalc(1)
    /\ pluralShown = FALSE
    /\ toolbarFuzzy = FALSE
    /\ m_dontAutoclearFuzzyStatus = FALSE
    /\ lastOp = "idle"
    /\ prevOp = "-"
    /\ pre = NoPre
    /\ pulls = 0
    /\ updated = << >>
    /\ refreshed = 0

UserTypesAnyText == \E t \in TextsUpTo(MaxLen) : UserEditsText(0, t)

NextPreprocess == UserTypesAnyText

SpecPreprocess == InitPreprocess /\ [][NextPreprocess]_vars

\* ------------------------------------ any text entered, shown again and read
NextRedisplay ==
    \/ UserTypesAnyText
    \/ \E undoable \in BOOLEAN : CallUpdateToTextCtrl(undoable)
    \/ CallUpdateFromTextCtrl

SpecRedisplay == InitPreprocess /\ [][NextRedisplay]_vars

\* ------------------------------------------ the Describer on its evaluators
\* the evaluators tried: any forms 0..MaxForms for the cardinals below
\* MaxHead and for the rest (a form >= formsCount is out of range)
Calculators ==
    {[head |-> h, tail |-> <<t>>] :
        h \in [1..MaxHead -> 0..MaxForms], t \in 0..MaxForms}

\* the panel as constructed, with an unselected, untranslated item
InitDescriber ==
    /\ item = [source |-> <<"a">>, hasPlural |-> TRUE, translations |-> << >>,
               isFuzzy |-> FALSE, isTranslated |-> FALSE,
               isModified |-> FALSE, isPreTranslated |-> FALSE]
    /\ selected = FALSE
    /\ m_textTrans = wxEmptyString
    /\ m_textTransPlural = <<wxEmptyString>>
    /\ evtHandlerEnabled = [c \in 0..1 |-> TRUE]
    /\ NotebookWithoutCalc(1)
    /\ pluralShown = FALSE
    /\ toolbarFuzzy = FALSE
    /\ m_dontAutoclearFuzzyStatus = FALSE
    /\ lastOp = "idle"
    /\ prevOp = "-"
    /\ pre = NoPre
    /\ pulls = 0
    /\ updated = << >>
    /\ refreshed = 0

\* a catalog is loaded over one without evaluator: its evaluator, if any, and
\* its number of forms (RecreatePluralTextCtrls keeps nothing of the notebook
\* it replaces, so the catalog replaced does not matter to what is built)
CatalogLoaded ==
    /\ calcUsed = NoCalc
    /\ \E calc \in Calculators \cup {NoCalc}, formsCount \in 1..(MaxForms + 1) :
          RecreatePluralTextCtrls(calc, formsCount)

NextDescriber == CatalogLoaded

SpecDescriber == InitDescriber /\ [][NextDescriber]_vars

\* ------------------------------------- the Describer on two-form catalogs
\* evaluators that give the cardinals from MaxHead on two forms in turn, as
\* "n%2" does
AlternatingCalculators ==
    {[head |-> h, tail |-> <<t, u>>] :
        h \in [1..MaxHead -> 0..MaxForms], t \in 0..MaxForms, u \in 0..MaxForms}

\* a two-form catalog is loaded over the one without evaluator
TwoFormCatalogLoaded ==
    /\ calcUsed = NoCalc
    /\ \E calc \in AlternatingCalculators : RecreatePluralTextCtrls(calc, 2)

NextTwoForms == TwoFormCatalogLoaded

SpecTwoForms == InitDescriber /\ [][NextTwoForms]_vars

\* ------------------------------------------------ ChangeFocusedPluralTab alone
\* wxBookCtrlBase::AdvanceSelection on n pages with page sel selected: the
\* next page, or the previous one, going round at the ends
AdvanceSelection(sel, n, forward) ==
    IF n = 0 THEN sel
    ELSE IF forward THEN (IF sel = n - 1 THEN 0 ELSE sel + 1)
    ELSE (IF sel = 0 THEN n - 1 ELSE sel - 1)

\* the pages and the focus as a stepper leaves them
NotebookStepped(sel) ==
    /\ notebookSelection' = sel
    /\ focused' = sel
    /\ UNCHANGED <<calcUsed, formExamples, pageLabels, m_textTransSingularForm>>

\* the stepper with forward and backward exchanged
ChangeFocusedPluralTabReversed(offset) ==
    /\ offset \in {1, -1}
    /\ BecomesSync(World, IF offset = 1 THEN "forward" ELSE "backward", "-", NoPre)
    /\ NotebookStepped(AdvanceSelection(notebookSelection, Len(m_textTransPlural),
                                        offset # 1))

\* EditingArea::ChangeFocusedPluralTab(offset); any other offset fails the
\* wxCHECK_RET and returns
ChangeFocusedPluralTab(offset) ==
    /\ offset \in {1, -1}
    /\ BecomesSync(World, IF offset = 1 THEN "forward" ELSE "backward", "-", NoPre)
    /\ NotebookStepped(AdvanceSelection(notebookSelection, Len(m_textTransPlural),
                                        offset = 1))

\* the user clicks the tab of another page: the notebook has the focus
UserSelectsTab(page) ==
    /\ page \in 0..(Len(m_textTransPlural) - 1)
    /\ page # notebookSelection
    /\ BecomesSync(World, "idle", "-", NoPre)
    /\ notebookSelection' = page
    /\ focused' = -1
    /\ UNCHANGED <<calcUsed, formExamples, pageLabels, m_textTransSingularForm>>

\* a plural item's notebook of 1..MaxTabs pages, as RecreatePluralTextCtrls
\* built it for a catalog without evaluator
InitFocus ==
    /\ item = [source |-> <<"a">>, hasPlural |-> TRUE, translations |-> << >>,
               isFuzzy |-> FALSE, isTranslated |-> FALSE,
               isModified |-> FALSE, isPreTranslated |-> FALSE]
    /\ selected = FALSE
    /\ m_textTrans = wxEmptyString
    /\ \E n \in 1..MaxTabs :
          /\ m_textTransPlural = [i \in 1..n |-> wxEmptyString]
          /\ evtHandlerEnabled = [c \in 0..n |-> TRUE]
          /\ NotebookWithoutCalc(n)
    /\ pluralShown = FALSE
    /\ toolbarFuzzy = FALSE
    /\ m_dontAutoclearFuzzyStatus = FALSE
    /\ lastOp = "idle"
    /\ prevOp = "-"
    /\ pre = NoPre
    /\ pulls = 0
    /\ updated = << >>
    /\ refreshed = 0

NextFocus ==
    \/ \E offset \in {-2, -1, 0, 1, 2} : ChangeFocusedPluralTab(offset)
    \/ \E page \in 0..(MaxTabs - 1) : UserSelectsTab(page)

SpecFocus == InitFocus /\ [][NextFocus]_vars

\* ================================================================== claims
\* a pull ran as (part of) the last operation
PullRan == lastOp \in {"pull", "edit"} /\ pulls >= 1

\* the texts a pull of item it reads from the controls, normalized
NormalizedTexts(it, single, plural) ==
    IF it.hasPlural
    THEN [i \in 1..Len(plural) |-> PreprocessEnteredTextForItem(it.source, plural[i])]
    ELSE <<PreprocessEnteredTextForItem(it.source, single)>>

EndsWithNewline(t) == Len(t) > 0 /\ t[Len(t)] = NL

\* C1 (No echo): a push runs no pull, emits nothing and refreshes nothing,
\* whatever the item and the write mode; between operations every control's
\* event handler is enabled, and so every user edit runs exactly one pull.
C1_NoEcho ==
    /\ lastOp = "push" => (pulls = 0 /\ updated = << >> /\ refreshed = 0)
    /\ \A c \in DOMAIN evtHandlerEnabled : evtHandlerEnabled[c]
    /\ lastOp = "edit" => pulls = 1

\* a plural item was pushed onto several controls without a pull running
C1_Witness ==
    /\ lastOp = "push" /\ pulls = 0
    /\ item.hasPlural /\ Len(m_textTransPlural) >= 2
    /\ Len(item.translations) >= 2
    /\ \A c \in DOMAIN evtHandlerEnabled : evtHandlerEnabled[c]

\* C2 as stated (Push/pull round-trip): for every item and every number of
\* plural controls, with the toolbar showing the item's fuzzy state, a pull
\* right after a push leaves the translations as they were, up to the
\* newline normalization, and does not flip isFuzzy, isTranslated, isModified.
C2_Original ==
    [][ (lastOp = "push" /\ lastOp' = "pull" /\ selected
         /\ toolbarFuzzy = item.isFuzzy)
        => /\ item'.translations =
                [i \in 1..Len(item.translations) |->
                    PreprocessEnteredTextForItem(item.source, item.translations[i])]
           /\ item'.isFuzzy = item.isFuzzy
           /\ item'.isTranslated = item.isTranslated
           /\ item'.isModified = item.isModified ]_vars

\* the stored translations are what a pull would store, and a plural item
\* has one translation per plural control
C2_Normalized(it, plural) ==
    /\ \A i \in 1..Len(it.translations) :
          PreprocessEnteredTextForItem(it.source, it.translations[i])
              = it.translations[i]
    /\ it.hasPlural => Len(it.translations) = Len(plural)

\* C2 as amended (Push/pull round-trip): for an item whose stored
\* translations are already normalized for its source and, when plural,
\* are as many as the plural controls, with the toolbar showing the item's
\* fuzzy state, a pull right after a push leaves the whole item unchanged
\* and emits nothing.
C2_RoundTrip ==
    [][ (lastOp = "push" /\ lastOp' = "pull" /\ selected
         /\ toolbarFuzzy = item.isFuzzy
         /\ C2_Normalized(item, m_textTransPlural))
        => (item' = item /\ updated' = << >> /\ refreshed' = 0) ]_vars

\* a pull right after the push of a translated two-form item was a no-op
C2_Witness ==
    /\ lastOp = "pull" /\ prevOp = "push" /\ selected /\ pulls = 1
    /\ pre.toolbarFuzzy = pre.isFuzzy
    /\ item.hasPlural /\ Len(item.translations) = 2
    /\ item.translations[1] # wxEmptyString
    /\ C2_Normalized(item, m_textTransPlural)
    /\ updated = << >>

\* C3 (Idempotent no-op pull): a pull that follows a pull on the selected
\* item, with no edit and no fuzzy toggle in between, emits no updated event
\* with statisticsChanged = TRUE and leaves the item exactly as it was.
C3_IdempotentPull ==
    [][ (PullRan /\ selected /\ lastOp' = "pull")
        => /\ \A k \in 1..Len(updated') : updated'[k] = FALSE
           /\ item' = item ]_vars

\* a second pull ran right after the pull of an edit that changed the item
C3_Witness ==
    /\ lastOp = "pull" /\ prevOp = "edit" /\ selected /\ pulls = 1
    /\ item.isModified
    /\ updated = << >>

\* C4 as stated (Auto-unfuzzy law): after the pull of a user edit of a
\* fuzzy item, with the toolbar still showing fuzzy, the item is not fuzzy
\* when m_dontAutoclearFuzzyStatus is off and still fuzzy when it is on.
C4_Original ==
    (lastOp = "edit" /\ pulls = 1 /\ selected /\ pre.isFuzzy /\ pre.toolbarFuzzy)
        => item.isFuzzy = m_dontAutoclearFuzzyStatus

\* C4 as amended (Auto-unfuzzy law): the same, for a user edit after which
\* the normalized texts of the controls differ from the stored translations.
C4_AutoUnfuzzy ==
    [][ (lastOp' = "edit" /\ selected /\ item.isFuzzy /\ toolbarFuzzy
         /\ NormalizedTexts(item, m_textTrans', m_textTransPlural')
                # item.translations)
        => item'.isFuzzy = m_dontAutoclearFuzzyStatus ]_vars

\* an edit of a fuzzy item cleared its fuzzy flag, the toolbar untouched
C4_Witness ==
    /\ lastOp = "edit" /\ pulls = 1 /\ selected
    /\ pre.isFuzzy /\ pre.toolbarFuzzy
    /\ ~m_dontAutoclearFuzzyStatus
    /\ ~item.isFuzzy /\ ~toolbarFuzzy
    /\ updated = <<TRUE>>

C6_Claimed(orig, t) ==
    IF EndsWithNewline(orig) /\ ~EndsWithNewline(t) THEN t \o <<NL>>
    ELSE IF ~EndsWithNewline(orig) /\ EndsWithNewline(t)
         THEN SubSeq(t, 1, Len(t) - 1)
         ELSE t

\* C6 as stated (Trailing-newline normalization): for every source and
\* every entered text the pull stores the text with a newline appended
\* (source ends with one, text does not), with one newline removed (source
\* does not end with one, text does), and unchanged otherwise.
C6_Original ==
    (lastOp = "edit" /\ pulls = 1)
        => item.translations = <<C6_Claimed(item.source, m_textTrans)>>

\* C6 as amended (Trailing-newline normalization): the rule applies when
\* the source and the entered text are both non-empty; an empty entered
\* text, or any text under an empty source, is stored unchanged.
C6_Normalization ==
    (lastOp = "edit" /\ pulls = 1)
        => item.translations =
             << IF m_textTrans # << >> /\ item.source # << >>
                THEN C6_Claimed(item.source, m_textTrans)
                ELSE m_textTrans >>

\* both rules acted: "a" under "a\n" stored "a\n" ...
C6_Witness ==
    /\ lastOp = "edit" /\ pulls = 1
    /\ item.source = <<"a", NL>> /\ m_textTrans = <<"a">>
    /\ item.translations = <<<<"a", NL>>>>

\* the pull of this step finds something to do: an item is selected and the
\* normalized texts differ from its translations or the toolbar from isFuzzy
C7_SomethingChanged ==
    /\ selected
    /\ \/ NormalizedTexts(item, m_textTrans', m_textTransPlural')
              # item.translations
       \/ toolbarFuzzy # item.isFuzzy

\* C7 (No-op pull has no side effects): a pull with no item selected, or
\* with the normalized texts equal to the translations and the toolbar equal
\* to isFuzzy, leaves the item and the toolbar as they were, refreshes no
\* row and emits no updated event.
C7_NoopPull ==
    [][ (lastOp' \in {"pull", "edit"} /\ pulls' >= 1 /\ ~C7_SomethingChanged)
        => /\ item' = item
           /\ toolbarFuzzy' = toolbarFuzzy
           /\ refreshed' = 0
           /\ updated' = << >> ]_vars

\* a called pull found the selected, translated item unchanged
C7_Witness ==
    /\ lastOp = "pull" /\ pulls = 1 /\ selected
    /\ NormalizedTexts(item, m_textTrans, m_textTransPlural) = item.translations
    /\ item.isTranslated /\ ~item.isModified
    /\ toolbarFuzzy = item.isFuzzy
    /\ updated = << >> /\ refreshed = 0

\* C8 (Push mirrors the item): after a push of a plural item control i
\* holds translation i when it is stored and is empty otherwise; after a
\* push of a non-plural item the single control holds its translation.
C8_PushMirrors ==
    lastOp = "push" =>
        IF item.hasPlural
        THEN \A i \in 1..Len(m_textTransPlural) :
                m_textTransPlural[i] =
                    IF i <= Len(item.translations) THEN item.translations[i]
                    ELSE wxEmptyString
        ELSE m_textTrans = item.translations[1]

\* a plural item with fewer translations than controls was pushed
C8_Witness ==
    /\ lastOp = "push" /\ item.hasPlural
    /\ Len(item.translations) = 1 /\ Len(m_textTransPlural) = 2
    /\ m_textTransPlural = <<item.translations[1], wxEmptyString>>
    /\ item.translations[1] # wxEmptyString

\* C9 (Statistics notification): a pull that finds something to do emits
\* exactly one updated event, and it carries statisticsChanged = TRUE
\* exactly when the pull changed isFuzzy or changed isTranslated.
C9_Statistics ==
    [][ (lastOp' \in {"pull", "edit"} /\ pulls' = 1 /\ C7_SomethingChanged)
        => /\ Len(updated') = 1
           /\ updated'[1] <=> (\/ item'.isFuzzy # item.isFuzzy
                               \/ item'.isTranslated # item.isTranslated) ]_vars

\* an edit changed a translation without flipping either flag
C9_Witness ==
    /\ lastOp = "edit" /\ pulls = 1 /\ selected
    /\ pre.isFuzzy = item.isFuzzy /\ pre.isTranslated = item.isTranslated
    /\ item.isModified
    /\ updated = <<FALSE>>

\* C10 (Push never mutates the catalog item): a push leaves every field of
\* the item as it was, whatever the numbers of controls and translations.
C10_PushReadsOnly ==
    [][ lastOp' = "push" => item' = item ]_vars

\* an item with more translations than plural controls was pushed
C10_Witness ==
    /\ lastOp = "push" /\ item.hasPlural
    /\ Len(item.translations) > Len(m_textTransPlural)
    /\ ~item.isModified

\* ------------------------------------------------------ the Describer's claims
\* the sample cardinals the evaluator maps to the form
Matches(calc, form) ==
    IF calc = NoCalc THEN {}
    ELSE {e \in 0..(SampleLimit - 1) : Evaluate(calc, e) = form}

\* the evaluator of "n==1 ? 0 : 1"
English ==
    [head |-> [n \in 1..MaxHead |-> IF n = 2 THEN 0 ELSE 1], tail |-> <<1>>]

\* the ordered rule table, read on the set m of the sample cardinals of the
\* form: the kind of label of the first rule that matches
RuleTable(formsCount, m) ==
    IF formsCount = 1 THEN "Everything"
    ELSE IF m = {} THEN "Form"
    ELSE IF Cardinality(m) = 1
    THEN IF formsCount = 2 /\ m = {1} THEN "Singular"
         ELSE IF m = {0} THEN "Zero"
         ELSE IF m = {1} THEN "One"
         ELSE IF m = {2} THEN "Two"
         ELSE "n ="
    ELSE IF formsCount = 2 /\ m = {0, 1} THEN "Singular"
    ELSE IF formsCount = 2 /\ Cardinality(m) >= maxExamplesCnt
            /\ ~(1 \in m /\ 0 \notin m)
    THEN IF 0 \in m \/ (1 \notin m /\ 2 \in m) THEN "Plural" ELSE "Other"
    ELSE "n ->"

\* the page of the form is titled as the rule table says of the set m
TitledByRule(f, m) ==
    /\ pageLabels[f].kind = RuleTable(Len(pageLabels), m)
    /\ pageLabels[f].kind = "Form" => pageLabels[f].form = f - 1
    /\ pageLabels[f].kind = "n =" => \E e \in m : pageLabels[f].examples.nums = <<e>>
    /\ pageLabels[f].kind \in {"n =", "n ->"}
          => pageLabels[f].examples = formExamples[f].examples

\* C11: for every evaluator (or none), every number of forms and every form,
\* the title of the form's page is the one the first matching rule of the
\* table gives; "n==1 ? 0 : 1" with two forms gives "Singular" and "Plural"
C11_RuleTable ==
    /\ \A f \in 1..Len(pageLabels) : TitledByRule(f, Matches(calcUsed, f - 1))
    /\ (calcUsed = English /\ Len(pageLabels) = 2)
          => /\ pageLabels[1].kind = "Singular"
             /\ pageLabels[2].kind = "Plural"

\* the two-form catalog of "n==1 ? 0 : 1" has been described
C11_Witness ==
    /\ calcUsed = English
    /\ Len(pageLabels) = 2
    /\ pageLabels[1].kind = "Singular"
    /\ pageLabels[2].kind = "Plural"
    /\ formExamples[2].firstExample = 0
    /\ formExamples[2].examplesCnt = maxExamplesCnt

\* ----------------------------------------------------- the stepper's claims
\* the direction of the stepper that made the step
StepDirection == IF lastOp' = "forward" THEN 1 ELSE -1

\* C12: with N >= 1 pages and page c selected, the stepper in direction d
\* selects page (c + d) mod N, a page of the notebook, and gives the focus to
\* its control; with 3 pages, forward from 2 gives 0 and backward from 0
\* gives 2
C12_Wraparound ==
    [][lastOp' \in {"forward", "backward"} =>
         LET N == Len(m_textTransPlural)
         IN /\ N >= 1
            /\ notebookSelection' = (notebookSelection + StepDirection + N) % N
            /\ notebookSelection' \in 0..(N - 1)
            /\ focused' = notebookSelection'
            /\ (N = 3 /\ notebookSelection = 2 /\ lastOp' = "forward")
                  => notebookSelection' = 0
            /\ (N = 3 /\ notebookSelection = 0 /\ lastOp' = "backward")
                  => notebookSelection' = 2]_vars

\* a backward step has gone round from the first of three pages to the last
C12_Witness ==
    /\ lastOp = "backward"
    /\ Len(m_textTransPlural) = 3
    /\ notebookSelection = 2
    /\ focused = 2

\* -------------------------------------------------- the fuzzy flag's claims
\* this step runs one pull on the selected item
PullStep == lastOp' \in {"pull", "edit"} /\ pulls' = 1 /\ selected

\* C13: a pull that finds the toolbar's fuzzy value different from the item's
\* leaves the item with the toolbar's value, whether or not a text changed and
\* whether or not m_dontAutoclearFuzzyStatus is set; a pull clears a fuzzy
\* value the toolbar shows only when the toolbar agrees with the item and
\* m_dontAutoclearFuzzyStatus is off
C13_ToggleHonoured ==
    [][ PullStep =>
          /\ toolbarFuzzy # item.isFuzzy
                => (item'.isFuzzy = toolbarFuzzy /\ toolbarFuzzy' = toolbarFuzzy)
          /\ (toolbarFuzzy /\ ~item'.isFuzzy)
                => (toolbarFuzzy = item.isFuzzy /\ ~m_dontAutoclearFuzzyStatus) ]_vars

\* the user made the item fuzzy on the toolbar and a called pull stored it,
\* auto-clearing being allowed
C13_Witness ==
    /\ lastOp = "pull" /\ pulls = 1 /\ selected
    /\ pre.toolbarFuzzy /\ ~pre.isFuzzy
    /\ ~m_dontAutoclearFuzzyStatus
    /\ item.isFuzzy /\ toolbarFuzzy
    /\ updated = <<TRUE>>

\* C14: every pull that finds something to do, be it only a toolbar toggle,
\* leaves the item modified and not pre-translated; and no step of pushes,
\* pulls and edits takes isModified back from TRUE to FALSE
C14_Modified ==
    [][ /\ (lastOp' \in {"pull", "edit"} /\ pulls' = 1 /\ C7_SomethingChanged)
            => (item'.isModified /\ ~item'.isPreTranslated)
        /\ item.isModified => item'.isModified ]_vars

\* a called pull whose only change was the user's clearing of the fuzzy
\* toggle left the item modified
C14_Witness ==
    /\ lastOp = "pull" /\ prevOp = "idle" /\ pulls = 1 /\ selected
    /\ pre.isFuzzy /\ ~pre.toolbarFuzzy
    /\ pre.isTranslated = item.isTranslated
    /\ item.isModified /\ ~item.isPreTranslated /\ ~item.isFuzzy
    /\ updated = <<TRUE>>

\* C15 as stated: after every push, undoable or not, m_dontAutoclearFuzzyStatus
\* is off, and the text edit that follows a push of a fuzzy item, the toolbar
\* still showing fuzzy, clears the item's fuzzy flag
C15_Original ==
    [][ /\ lastOp' = "push" => ~m_dontAutoclearFuzzyStatus'
        /\ (lastOp = "push" /\ lastOp' = "edit" /\ selected
            /\ item.isFuzzy /\ toolbarFuzzy)
              => ~item'.isFuzzy ]_vars

\* C15 as amended: after every push, undoable or not,
\* m_dontAutoclearFuzzyStatus is off, and the text edit that follows a push of
\* a fuzzy item, the toolbar still showing fuzzy, clears the item's fuzzy
\* flag when it leaves normalized texts that differ from the stored ones
C15_SuppressionReset ==
    [][ /\ lastOp' = "push" => ~m_dontAutoclearFuzzyStatus'
        /\ (lastOp = "push" /\ lastOp' = "edit" /\ selected
            /\ item.isFuzzy /\ toolbarFuzzy
            /\ NormalizedTexts(item, m_textTrans', m_textTransPlural')
                  # item.translations)
              => ~item'.isFuzzy ]_vars

\* a fuzzy item was pushed while m_dontAutoclearFuzzyStatus was set, and the
\* push has reset it
C15_Witness ==
    /\ lastOp = "push" /\ selected
    /\ pre.dontAutoclear /\ ~m_dontAutoclearFuzzyStatus
    /\ item.isFuzzy /\ toolbarFuzzy

\* ns lists, in ascending order, the first Len(ns) cardinals of the set m
FirstOf(ns, m) ==
    /\ \A i \in 1..Len(ns) : ns[i] \in m
    /\ \A i \in 1..(Len(ns) - 1) : ns[i] < ns[i + 1]
    /\ Len(ns) > 0 =>
          \A e \in 0..ns[Len(ns)] : e \in m => \E i \in 1..Len(ns) : ns[i] = e

\* the examples printed for the form are the first up to maxExamplesCnt
\* cardinals of the set m, with the ellipsis when m has maxExamplesCnt or more
CollectedFirstFive(f, m) ==
    /\ Len(formExamples[f].examples.nums) = Min(maxExamplesCnt, Cardinality(m))
    /\ FirstOf(formExamples[f].examples.nums, m)
    /\ formExamples[f].examples.ellipsis = (Cardinality(m) >= maxExamplesCnt)

\* C16 as stated: with an evaluator and more than one form, the examples of
\* each form are the first up to 5 sample cardinals of 0..999, ascending,
\* that the evaluator maps to the form; the list of the collected examples
\* ends with the ellipsis when a 5th was found and holds all the matches,
\* without ellipsis, when there are fewer than 5
C16_Original ==
    (calcUsed # NoCalc /\ Len(formExamples) > 1)
        => \A f \in 1..Len(formExamples) :
              CollectedFirstFive(f, Matches(calcUsed, f - 1))

\* the cardinal 1, and no other sample cardinal, is mapped to the form
OnlyOne(calc, form) ==
    /\ calc # NoCalc
    /\ Evaluate(calc, 1) = form
    /\ \A e \in 0..(SampleLimit - 1) : Evaluate(calc, e) = form => e = 1

\* the forms of the notebook whose examples are the single cardinal 1
SingleExampleOne ==
    {f \in 0..(Len(pageLabels) - 1) : Len(pageLabels) > 1 /\ OnlyOne(calcUsed, f)}

\* C17: after RecreatePluralTextCtrls for one or more forms exactly one
\* control is the singular form: that of the form whose examples are the
\* single cardinal 1 when there is one, the first control otherwise (thus
\* without evaluator and with one form)
C17_SingularForm ==
    /\ m_textTransSingularForm \in 0..(Len(m_textTransPlural) - 1)
    /\ \A f \in SingleExampleOne : m_textTransSingularForm = f
    /\ SingleExampleOne = {} => m_textTransSingularForm = 0

\* the second of two forms is the singular one, 1 being its only example
C17_Witness ==
    /\ Len(m_textTransPlural) = 2
    /\ m_textTransSingularForm = 1
    /\ formExamples[2].examples = [nums |-> <<1>>, ellipsis |-> FALSE]
    /\ formExamples[1].examplesCnt = maxExamplesCnt

\* C18: after every pull on a selected item, whether it returned early or
\* not, the toolbar's fuzzy toggle shows the item's fuzzy flag
C18_IndicatorAgrees ==
    (PullRan /\ selected) => toolbarFuzzy = item.isFuzzy

\* the pull of an edit of a fuzzy plural item cleared the flag and took the
\* toolbar's toggle back with it
C18_Witness ==
    /\ lastOp = "edit" /\ pulls = 1 /\ selected /\ item.hasPlural
    /\ pre.isFuzzy /\ pre.toolbarFuzzy
    /\ ~item.isFuzzy /\ ~toolbarFuzzy
    /\ refreshed = 1

\* ------------------------------------------------- the claims of redisplay
\* C19 as stated: whatever the source and the text entered, once a pull has
\* stored the normalized text in the item, the stored translation is
\* normalized, and a pull right after a push of the item is a no-op: the item
\* is not modified again and nothing is emitted
C19_Original ==
    [][ (lastOp = "push" /\ item.isModified /\ lastOp' = "pull")
        => /\ PreprocessEnteredTextForItem(item.source, item.translations[1])
                 = item.translations[1]
           /\ item' = item
           /\ updated' = << >> ]_vars

\* -------------------------------------------------- the claims of the shape
\* C20: after every pull on a selected plural item the item has as many
\* translations as there are plural controls, the i-th being the normalized
\* text of the i-th control; translations a push found no control for are
\* gone with the first pull
C20_ShapeAfterPull ==
    (PullRan /\ selected /\ item.hasPlural)
        => /\ Len(item.translations) = Len(m_textTransPlural)
           /\ \A i \in 1..Len(m_textTransPlural) :
                 item.translations[i] =
                     PreprocessEnteredTextForItem(item.source, m_textTransPlural[i])

\* the pull after the push onto one control of an item with a second, empty,
\* translation left the item with the first translation alone
C20_Witness ==
    /\ lastOp = "pull" /\ prevOp = "push" /\ pulls = 1 /\ selected
    /\ item.hasPlural
    /\ Len(m_textTransPlural) = 1
    /\ item.translations = << <<"a">> >>
    /\ ~pre.isTranslated /\ item.isTranslated
    /\ item.isModified

\* ------------------------------------------- the claims of two-form catalogs
\* some sample cardinal is mapped to the form
HasExample(calc, form) ==
    /\ calc # NoCalc
    /\ \E e \in 0..(SampleLimit - 1) : Evaluate(calc, e) = form

\* two pages, and both forms have an example
BothFormsHaveExamples ==
    /\ Len(pageLabels) = 2
    /\ HasExample(calcUsed, 0)
    /\ HasExample(calcUsed, 1)

\* the form reached maxExamplesCnt examples and its first example is not 1:
\* the rule of "Plural" and "Other", which looks at the first example only
TitledByFirstExample(f) ==
    /\ formExamples[f].examplesCnt = maxExamplesCnt
    /\ formExamples[f].firstExample # 1

\* C21 as stated: for every evaluator, when there are two forms and both
\* have an example in 0..999, the two pages have different titles
C21_Original ==
    BothFormsHaveExamples => pageLabels[1] # pageLabels[2]

\* C21 as amended: the same, unless both forms reach maxExamplesCnt examples
\* with a first example other than 1
C21_DistinctLabels ==
    (BothFormsHaveExamples /\ ~(TitledByFirstExample(1) /\ TitledByFirstExample(2)))
        => pageLabels[1] # pageLabels[2]

\* a form of many examples from 0 on is "Plural", the other, of the two
\* examples 2 and 3, is titled by its list
C21_Witness ==
    /\ BothFormsHaveExamples
    /\ pageLabels[1].kind = "Plural"
    /\ formExamples[1].firstExample = 0
    /\ pageLabels[2].kind = "n ->"
    /\ pageLabels[2].examples = [nums |-> <<2, 3>>, ellipsis |-> FALSE]

\* ------------------------------------- the claims of the singular control
\* there is an evaluator, more than one form, and the form of the cardinal 1
\* is one of the forms
OneIsInRange ==
    /\ calcUsed # NoCalc
    /\ Len(pageLabels) > 1
    /\ Evaluate(calcUsed, 1) \in 0..(Len(pageLabels) - 1)

\* the control m_textTransSingularForm is that of the form of the cardinal
\* 1, and no other page is titled "Singular"
SingularMatchesGrammar ==
    /\ m_textTransSingularForm = Evaluate(calcUsed, 1)
    /\ \A f \in 1..Len(pageLabels) :
          pageLabels[f].kind = "Singular" => m_textTransSingularForm = f - 1

====
